---------------------------- MODULE Spec2Model ----------------------------
(***************************************************************************)
(* A model of tinyraytrace-rs: the recursive ray caster of src/src/main.rs *)
(* and the primitives and materials of src/src/blocks.rs.                  *)
(*                                                                         *)
(* Numbers.  An f32 is modelled as NaN, +Inf, -Inf or a finite fixed-point *)
(* number with Scale units to 1.0.  Addition and subtraction are exact;    *)
(* multiplication, division and square root are rounded to the nearest     *)
(* unit, as f32 rounds to the nearest representable value.  Division by    *)
(* zero, 0/0, Inf-Inf, 0*Inf and the square root of a negative number give *)
(* the IEEE-754 results.  The sign of zero is not modelled (every zero is  *)
(* +0.0) and finite values never overflow: the inputs are small.           *)
(***************************************************************************)
EXTENDS Integers, Sequences, FiniteSets, TLC

\* Units of the fixed-point grid per 1.0: DEFAULT_JITTER = 0.001 is one unit.
Scale == 10 * 10 * 10

-----------------------------------------------------------------------------
(* f32 *)

Fin(v) == [k |-> "fin", v |-> v]
NaN == [k |-> "nan", v |-> 0]
PInf == [k |-> "inf", v |-> 1]
NInf == [k |-> "inf", v |-> -1]

\* The f32 literal n.0 and the f32 literal m/1000.
F(n) == Fin(n * Scale)
Milli(m) == Fin(m)

IsFin(a) == a.k = "fin"
IsNaN(a) == a.k = "nan"
IsInf(a) == a.k = "inf"

Abs(n) == IF n < 0 THEN -n ELSE n
Sgn(n) == IF n < 0 THEN -1 ELSE 1

\* n / d for d > 0, rounded to the nearest integer (halves away from zero).
RoundDiv(n, d) ==
    LET q == Abs(n) \div d
        r == Abs(n) % d
        m == IF 2 * r >= d THEN q + 1 ELSE q
    IN  Sgn(n) * m

RECURSIVE ISqrtBetween(_, _, _)
ISqrtBetween(n, lo, hi) ==
    IF lo >= hi THEN lo
    ELSE LET mid == (lo + hi + 1) \div 2
         IN  IF mid * mid <= n THEN ISqrtBetween(n, mid, hi)
             ELSE ISqrtBetween(n, lo, mid - 1)

\* The integer nearest to the square root of n >= 0; r is the root rounded down.
ISqrtNearest(n, r) == IF n - r * r > r THEN r + 1 ELSE r
ISqrt(n) == ISqrtNearest(n, ISqrtBetween(n, 0, 46340))

\* The sign bit of a float (1 or -1); zero and NaN count as positive.
SignOf(a) == IF IsNaN(a) THEN 1 ELSE Sgn(a.v)

\* The largest finite f32: above every finite value of the model.
F32_MAX == Fin(2 ^ 30)

\* A key that orders the floats that are not NaN.
Ord(a) == IF IsInf(a) THEN a.v * (2 ^ 30 + 1) ELSE a.v

FNeg(a) == IF IsNaN(a) THEN NaN ELSE [k |-> a.k, v |-> -a.v]

FAdd(a, b) ==
    IF IsNaN(a) \/ IsNaN(b) THEN NaN
    ELSE IF IsInf(a) THEN (IF IsInf(b) /\ b.v # a.v THEN NaN ELSE a)
    ELSE IF IsInf(b) THEN b
    ELSE Fin(a.v + b.v)

FSub(a, b) == FAdd(a, FNeg(b))

FMul(a, b) ==
    IF IsNaN(a) \/ IsNaN(b) THEN NaN
    ELSE IF IsInf(a) \/ IsInf(b)
         THEN (IF a.v = 0 \/ b.v = 0 THEN NaN
               ELSE IF SignOf(a) * SignOf(b) > 0 THEN PInf ELSE NInf)
    ELSE Fin(RoundDiv(a.v * b.v, Scale))

FDiv(a, b) ==
    IF IsNaN(a) \/ IsNaN(b) THEN NaN
    ELSE IF IsInf(a)
         THEN (IF IsInf(b) THEN NaN
               ELSE IF SignOf(a) * SignOf(b) > 0 THEN PInf ELSE NInf)
    ELSE IF IsInf(b) THEN Fin(0)
    ELSE IF b.v = 0
         THEN (IF a.v = 0 THEN NaN ELSE IF a.v > 0 THEN PInf ELSE NInf)
    ELSE Fin(Sgn(b.v) * RoundDiv(a.v * Scale, Abs(b.v)))

FSqrt(a) ==
    IF IsNaN(a) THEN NaN
    ELSE IF IsInf(a) THEN (IF a.v > 0 THEN PInf ELSE NaN)
    ELSE IF a.v < 0 THEN NaN
    ELSE Fin(ISqrt(a.v * Scale))

\* The comparisons of f32: false whenever an operand is NaN.
FLt(a, b) == ~IsNaN(a) /\ ~IsNaN(b) /\ Ord(a) < Ord(b)
FLe(a, b) == ~IsNaN(a) /\ ~IsNaN(b) /\ Ord(a) <= Ord(b)
FGt(a, b) == FLt(b, a)

\* f32::max and f32::min: when one operand is NaN the other is returned.
f32_max(a, b) ==
    IF IsNaN(a) THEN b ELSE IF IsNaN(b) THEN a ELSE IF FLt(a, b) THEN b ELSE a
f32_min(a, b) ==
    IF IsNaN(a) THEN b ELSE IF IsNaN(b) THEN a ELSE IF FLt(b, a) THEN b ELSE a

\* a^n for a natural number n, by repeated squaring: h is a^(n \div 2).
FPowStep(h, a, odd) == IF odd THEN FMul(FMul(h, h), a) ELSE FMul(h, h)
RECURSIVE FPowNat(_, _)
FPowNat(a, n) ==
    IF n = 0 THEN F(1)
    ELSE FPowStep(FPowNat(a, n \div 2), a, n % 2 = 1)

\* f32::powf for the exponents the model uses: finite, whole and >= 0.
powf(a, e) == FPowNat(a, e.v \div Scale)

\* The magnitude of mag alone: the sign of sgn is ignored.
copysign_unsigned(mag, sgn) ==
    IF IsNaN(mag) THEN NaN ELSE [k |-> mag.k, v |-> Abs(mag.v)]

\* f32::copysign: the magnitude of mag with the sign of sgn.
copysign(mag, sgn) ==
    IF IsNaN(mag) THEN NaN
    ELSE [k |-> mag.k, v |-> SignOf(sgn) * Abs(mag.v)]

-----------------------------------------------------------------------------
(* Vec3 *)

Vec3_new(x, y, z) == [x |-> x, y |-> y, z |-> z]
\* The vector of the whole numbers x, y, z.
V(x, y, z) == Vec3_new(F(x), F(y), F(z))
orig == Vec3_new(Fin(0), Fin(0), Fin(0))

l2(a) == FSqrt(FAdd(FAdd(powf(a.x, F(2)), powf(a.y, F(2))), powf(a.z, F(2))))

dot(a, b) == FAdd(FAdd(FMul(a.x, b.x), FMul(a.y, b.y)), FMul(a.z, b.z))

\* normalized: each coordinate divided by d = self.l2().
VDiv(a, d) == Vec3_new(FDiv(a.x, d), FDiv(a.y, d), FDiv(a.z, d))
normalized(a) == VDiv(a, l2(a))

mult(a, s) == Vec3_new(FMul(a.x, s), FMul(a.y, s), FMul(a.z, s))

VSub(a, b) == Vec3_new(FSub(a.x, b.x), FSub(a.y, b.y), FSub(a.z, b.z))
VAdd(a, b) == Vec3_new(FAdd(a.x, b.x), FAdd(a.y, b.y), FAdd(a.z, b.z))

\* self projected on other: other.normalized() * (self . other.normalized()).
along(a, e) == mult(e, dot(a, e))
project_on(a, other) == along(a, normalized(other))

\* self mirrored about the normal: d - 2 (d . n) n.
reflect(a, normal) == VSub(a, mult(normal, FMul(F(2), dot(a, normal))))

cross(a, b) ==
    Vec3_new(FSub(FMul(a.y, b.z), FMul(a.z, b.y)),
             FSub(FMul(a.z, b.x), FMul(a.x, b.z)),
             FSub(FMul(a.x, b.y), FMul(a.y, b.x)))

\* Snell's law in vector form, for a ray entering (cosi >= 0) or leaving
\* (cosi < 0) a medium of refractive index `index` from or into index 1.
\* On total internal reflection k < 0 and the square root is NaN.
refract_from(a, n, cosi, eta) ==
    VAdd(mult(a, eta),
         mult(n, FSub(FMul(eta, cosi),
                      FSqrt(FSub(F(1), FMul(FMul(eta, eta),
                                            FSub(F(1), FMul(cosi, cosi))))))))

refract_side(a, normal, index, cosi) ==
    IF FLt(cosi, F(0))
    THEN refract_from(a, mult(normal, F(-1)), FNeg(cosi), index)
    ELSE refract_from(a, normal, cosi, FDiv(F(1), index))

refract(a, normal, index) ==
    refract_side(a, normal, index,
                 FNeg(f32_max(F(-1), f32_min(F(1), dot(a, normal)))))

-----------------------------------------------------------------------------
(* Ray *)

Ray_new(dir) == [origin |-> orig, direction |-> normalized(dir)]
set_origin(ray, origin) == [ray EXCEPT !.origin = origin]
walk_dir(ray, distance) == VAdd(ray.origin, mult(ray.direction, distance))

-----------------------------------------------------------------------------
(* Material *)

\* A conversion to u8 that rounds to the nearest integer.
as_u8_rounded(a) ==
    IF IsNaN(a) THEN 0
    ELSE IF IsInf(a) THEN (IF a.v > 0 THEN 255 ELSE 0)
    ELSE IF a.v <= 0 THEN 0
    ELSE IF RoundDiv(a.v, Scale) > 255 THEN 255
    ELSE RoundDiv(a.v, Scale)

\* `x as u8` for an f32 x: NaN is 0, the fraction is dropped, the value
\* saturates at 0 and 255.
as_u8(a) ==
    IF IsNaN(a) THEN 0
    ELSE IF IsInf(a) THEN (IF a.v > 0 THEN 255 ELSE 0)
    ELSE IF a.v <= 0 THEN 0
    ELSE IF a.v \div Scale > 255 THEN 255
    ELSE a.v \div Scale

_to_pixel(color) ==
    << as_u8(FMul(F(255), color[1])),
       as_u8(FMul(F(255), color[2])),
       as_u8(FMul(F(255), color[3])) >>

\* A Material of the given color whose pixel is left as it was.
Colored_pixel_kept(self, color) == [self EXCEPT !.color = color]

\* A Material of the given color, its pixel computed from it.
Colored(self, color) == [self EXCEPT !.color = color, !.pixel = _to_pixel(color)]

\* weights = (diffuse, specular, reflection, refraction) mixing coefficients.
Material_new(color, weights, specular_exponent, refraction_index) ==
    [ color |-> color,
      pixel |-> _to_pixel(color),
      specular_exponent |-> specular_exponent,
      refraction_index |-> refraction_index,
      diff_mixing_coef |-> weights[1],
      spec_mixing_coef |-> weights[2],
      reflection_mixing_coef |-> weights[3],
      refraction_mixing_coef |-> weights[4] ]

\* A default material that is black.
Material_default_black ==
    Material_new(<<F(0), F(0), F(0)>>, <<F(1), F(0), F(0), F(0)>>, F(1), F(1))

Material_default ==
    Material_new(<<Milli(200), Milli(700), Milli(800)>>,
                 <<F(1), F(0), F(0), F(0)>>, F(1), F(1))

\* x.max(0.) alone, without the upper bound.
max0_only(x) == f32_max(x, F(0))

\* x.max(0.).min(1.)
max0_min1(x) == f32_min(f32_max(x, F(0)), F(1))

\* adjust_light once diff_albedo and white_shift are computed.
adjusted(self, diff_albedo, white_shift) ==
    Colored(self,
            << max0_min1(FAdd(FMul(self.color[1], diff_albedo), white_shift)),
               max0_min1(FAdd(FMul(self.color[2], diff_albedo), white_shift)),
               max0_min1(FAdd(FMul(self.color[3], diff_albedo), white_shift)) >>)

\* An adjustment by the diffuse light alone.
adjust_light_diffuse_only(self, diffuse, specular) ==
    adjusted(self, FMul(diffuse, self.diff_mixing_coef), F(0))

adjust_light(self, diffuse, specular) ==
    adjusted(self, FMul(diffuse, self.diff_mixing_coef),
             FMul(specular, self.spec_mixing_coef))

\* A mix that adds the whole color of the other material.
_mix_materials_unweighted(self, other, coef) ==
    Colored(self,
            << max0_min1(FAdd(self.color[1], other.color[1])),
               max0_min1(FAdd(self.color[2], other.color[2])),
               max0_min1(FAdd(self.color[3], other.color[3])) >>)

_mix_materials(self, other, coef) ==
    Colored(self,
            << max0_min1(FAdd(self.color[1], FMul(coef, other.color[1]))),
               max0_min1(FAdd(self.color[2], FMul(coef, other.color[2]))),
               max0_min1(FAdd(self.color[3], FMul(coef, other.color[3]))) >>)

mix_reflection(self, other) == _mix_materials(self, other, self.reflection_mixing_coef)

\* A mix by the refractivity of the other material.
mix_refraction_by_other(self, other) ==
    _mix_materials(self, other, other.refraction_mixing_coef)

mix_refraction(self, other) == _mix_materials(self, other, self.refraction_mixing_coef)

-----------------------------------------------------------------------------
(* Primitives: Plane, Rectangle2D, Sphere *)

Point(p) == [some |-> TRUE, p |-> p]
HitNone == [some |-> FALSE, p |-> orig]

Plane(normal, point) == [type |-> "Plane", normal |-> normal, point |-> point]

Sphere(center, radius, material) ==
    [type |-> "Sphere", center |-> center, radius |-> radius, material |-> material]

\* Plane::ray_intersect's branch on the two dot products.
Plane_hit(ray, origin_to_plane_dist, cos_dir_norm) ==
    IF FLt(FMul(cos_dir_norm, origin_to_plane_dist), F(0))
    THEN HitNone
    ELSE Point(walk_dir(ray, FDiv(origin_to_plane_dist, cos_dir_norm)))

Plane_ray_intersect(self, ray) ==
    Plane_hit(ray, dot(self.normal, VSub(self.point, ray.origin)),
              dot(self.normal, ray.direction))

\* Rectangle2D::new once z, e1 and e2 are computed.
Rectangle2D_of(origin, z, e1, e2, material) ==
    [ type |-> "Rectangle2D",
      width |-> mult(e1, FMul(F(2), l2(project_on(z, e1)))),
      height |-> mult(e2, FMul(F(2), l2(project_on(z, e2)))),
      plane |-> Plane(cross(e1, e2), origin),
      material |-> material ]

Rectangle2D_e2(origin, z, e1, material) ==
    Rectangle2D_of(origin, z, e1, normalized(VSub(z, project_on(z, e1))), material)

Rectangle2D_new(origin, center, side_dir, material) ==
    Rectangle2D_e2(origin, VSub(center, origin), normalized(side_dir), material)

\* Whether d, from the rectangle's origin to a point of its plane, stays
\* within the rectangle's width and height.
Rectangle2D_holds(self, d) ==
    /\ FLe(l2(project_on(d, self.width)), l2(self.width))
    /\ FLe(l2(project_on(d, self.height)), l2(self.height))

\* Rectangle2D::ray_intersect's match on the plane's HitPoint.
Rectangle2D_match(self, hit) ==
    IF ~hit.some THEN HitNone
    ELSE IF Rectangle2D_holds(self, VSub(hit.p, self.plane.point)) THEN Point(hit.p)
    ELSE HitNone

Rectangle2D_ray_intersect(self, ray) ==
    Rectangle2D_match(self, Plane_ray_intersect(self.plane, ray))

\* A match that tries the farther distance first.
Sphere_pick_far_first(ray, o_i1, o_i2) ==
    IF FGt(o_i2, F(0)) THEN Point(walk_dir(ray, o_i2))
    ELSE IF FGt(o_i1, F(0)) THEN Point(walk_dir(ray, o_i1))
    ELSE HitNone

\* The match on the two distances from the ray's origin to the sphere.
Sphere_pick(ray, o_i1, o_i2) ==
    IF FGt(o_i1, F(0)) THEN Point(walk_dir(ray, o_i1))
    ELSE IF FGt(o_i2, F(0)) THEN Point(walk_dir(ray, o_i2))
    ELSE HitNone

\* The two distances, from dist_orig_proj and dist_proj_intersect1.
Sphere_roots(ray, dist_orig_proj, dist_proj_intersect1) ==
    Sphere_pick(ray, FSub(dist_orig_proj, dist_proj_intersect1),
                FAdd(dist_orig_proj, dist_proj_intersect1))

\* Sphere::ray_intersect once dist_ctr_proj is computed.
Sphere_chord(self, ray, canonical_center, dist_ctr_proj) ==
    IF FGt(dist_ctr_proj, self.radius) THEN HitNone
    ELSE Sphere_roots(ray, dot(canonical_center, ray.direction),
                      FSqrt(FSub(powf(self.radius, F(2)), powf(dist_ctr_proj, F(2)))))

Sphere_from(self, ray, canonical_center) ==
    Sphere_chord(self, ray, canonical_center,
                 l2(VSub(canonical_center,
                         project_on(canonical_center, ray.direction))))

Sphere_ray_intersect(self, ray) == Sphere_from(self, ray, VSub(self.center, ray.origin))

\* The trait RayCollision, dispatched on the primitive's type.
ray_intersect(s, ray) ==
    CASE s.type = "Plane" -> Plane_ray_intersect(s, ray)
      [] s.type = "Rectangle2D" -> Rectangle2D_ray_intersect(s, ray)
      [] s.type = "Sphere" -> Sphere_ray_intersect(s, ray)

collision_normal(s, hit_point) ==
    CASE s.type = "Plane" -> s.normal
      [] s.type = "Rectangle2D" -> s.plane.normal
      [] s.type = "Sphere" -> normalized(VSub(hit_point, s.center))

collision_material(s, hit_point) ==
    CASE s.type = "Plane" -> Material_default
      [] s.type = "Rectangle2D" -> s.material
      [] s.type = "Sphere" -> s.material

-----------------------------------------------------------------------------
(* The ray caster: src/src/main.rs *)

DEFAULT_JITTER == Milli(1)
MAX_RAY_BOUNCES == 4

\* The guard of reflective_ray_cast's first match arm.
may_bounce_off_by_one(depth) == depth <= MAX_RAY_BOUNCES
may_bounce(depth) == depth < MAX_RAY_BOUNCES

\* Option<CollisionState>: `some` is FALSE for None.  dist is cast_ray's
\* local of that name, the distance of the nearest hit so far.
NoCollision(ray) ==
    [ some |-> FALSE, hit_point |-> orig, normal |-> orig,
      material |-> Material_default, ray |-> ray, dist |-> F32_MAX ]

\* The match arm HitPoint::Point(p) if (p - ray.origin).l2() < dist.
cast_ray_arm(c, s, ray, p, p_dist) ==
    IF FLt(p_dist, c.dist)
    THEN [ some |-> TRUE,
           hit_point |-> p,
           normal |-> collision_normal(s, p),
           material |-> collision_material(s, p),
           ray |-> ray,
           dist |-> p_dist ]
    ELSE c

\* The match on a scene object's HitPoint.
cast_ray_match(c, s, ray, hit) ==
    IF hit.some THEN cast_ray_arm(c, s, ray, hit.p, l2(VSub(hit.p, ray.origin)))
    ELSE c

\* One iteration of cast_ray's loop over the scene.
cast_ray_step(c, s, ray) == cast_ray_match(c, s, ray, ray_intersect(s, ray))

RECURSIVE cast_ray_loop(_, _, _, _)
cast_ray_loop(c, scene, i, ray) ==
    IF i > Len(scene) THEN c
    ELSE cast_ray_loop(cast_ray_step(c, scene[i], ray), scene, i + 1, ray)

cast_ray(ray, scene) == cast_ray_loop(NoCollision(ray), scene, 1, ray)

jitter_along_normal(pt, direction, normal, jitter) ==
    VAdd(pt, mult(normal, copysign(jitter, dot(direction, normal))))

\* Ray::new(dir).set_origin(origin), the origin being pt moved along the normal.
jittered_ray(pt, dir, normal, jitter) ==
    set_origin(Ray_new(dir), jitter_along_normal(pt, dir, normal, jitter))

reflected_ray(self, jitter) ==
    jittered_ray(self.hit_point, reflect(self.ray.direction, self.normal),
                 self.normal, jitter)

refracted_ray(self, jitter) ==
    jittered_ray(self.hit_point,
                 normalized(refract(self.ray.direction, self.normal,
                                    self.material.refraction_index)),
                 self.normal, jitter)

\* if let Some(shadow) = cast_ray(..) { if (..).l2() < ldist { return true } }
shadow_nearer(shadow, shadow_orig, ldist) ==
    shadow.some /\ FLt(l2(VSub(shadow.hit_point, shadow_orig)), ldist)

shadow_cast(shadow_ray, ldist, scene) ==
    shadow_nearer(cast_ray(shadow_ray, scene), shadow_ray.origin, ldist)

\* A shadow test that takes any hit of the shadow ray, however far.
light_is_shadowed_at_any_distance(hit_point, hit_normal, light_position, scene) ==
    cast_ray(jittered_ray(hit_point, normalized(VSub(light_position, hit_point)),
                          hit_normal, DEFAULT_JITTER), scene).some

light_is_shadowed(hit_point, hit_normal, light_position, scene) ==
    shadow_cast(jittered_ray(hit_point, normalized(VSub(light_position, hit_point)),
                             hit_normal, DEFAULT_JITTER),
                l2(VSub(light_position, hit_point)), scene)

LightSource(position, intensity) == [position |-> position, intensity |-> intensity]

\* One iteration of get_light_adjustments' loop: acc = <<diffuse, specular>>.
\* The sums with the light of direction ldir added.
light_add(acc, cur, collision, ldir) ==
    << FAdd(acc[1], FMul(cur.intensity, f32_max(dot(ldir, collision.normal), F(0)))),
       FAdd(acc[2],
            FMul(cur.intensity,
                 powf(f32_max(dot(reflect(ldir, collision.normal),
                                  collision.ray.direction), F(0)),
                      collision.material.specular_exponent))) >>

light_step(acc, cur, collision, scene) ==
    IF light_is_shadowed(collision.hit_point, collision.normal, cur.position, scene)
    THEN acc
    ELSE light_add(acc, cur, collision,
                   normalized(VSub(cur.position, collision.hit_point)))

RECURSIVE light_loop(_, _, _, _, _)
light_loop(acc, lights, i, collision, scene) ==
    IF i > Len(lights) THEN acc
    ELSE light_loop(light_step(acc, lights[i], collision, scene),
                    lights, i + 1, collision, scene)

get_light_adjustments(collision, scene, lights) ==
    light_loop(<<F(0), F(0)>>, lights, 1, collision, scene)

-----------------------------------------------------------------------------
(* State *)

VARIABLES
    mode,      \* which part of the program runs: "trace", "unit" or "material"
    scene,     \* render's `spheres`: the ordered scene objects
    lights,    \* render's `lights`
    stack,     \* the call stack of reflective_ray_cast, innermost call last
    ret,       \* the value the last finished call returned to its caller
    last,      \* a record of the last finished call of reflective_ray_cast
    calls,     \* how many calls of reflective_ray_cast were made
    leaves,    \* how many of them shaded locally at depth MAX_RAY_BOUNCES
    pixel,     \* the pixel render wrote, <<>> before
    call,      \* unit runs: the function applied, its arguments and result
    mat,       \* material runs: the Material under construction
    nops       \* material runs: how many operations were applied to mat

traceVars == <<scene, lights, stack, ret, last, calls, leaves, pixel>>
unitVars == <<call>>
materialVars == <<mat, nops>>
vars == <<mode, scene, lights, stack, ret, last, calls, leaves, pixel, call, mat, nops>>

-----------------------------------------------------------------------------
(* The inputs of the trace runs *)

\* The materials of main().
ivory == Material_new(<<Milli(400), Milli(400), Milli(300)>>,
                      <<Milli(600), Milli(300), Milli(100), F(0)>>, F(50), F(1))
glass == Material_new(<<Milli(600), Milli(700), Milli(800)>>,
                      <<F(0), Milli(500), Milli(100), Milli(800)>>, F(125), Milli(1500))
red_rubber == Material_new(<<Milli(300), Milli(100), Milli(100)>>,
                           <<Milli(900), Milli(100), F(0), F(0)>>, F(10), F(1))
mirror == Material_new(<<F(1), F(1), F(1)>>,
                       <<F(0), F(10), Milli(800), F(0)>>, F(1425), F(1))

\* The longest scene and the most lights drawn from the palettes below.
MaxPrims == 2
MaxLights == 2

\* Scene objects: a glass sphere in front of the camera, a sphere behind the
\* camera and the floor of main().
PrimPalette ==
    { Sphere(V(0, 0, -5), F(2), glass),
      Sphere(V(0, 0, 3), F(1), ivory),
      Rectangle2D_new(V(0, -4, -1), V(2, -4, -10), V(1, 0, 0), red_rubber) }

\* Five spheres around the camera: every ray cast inside them hits one.
Shells ==
    << Sphere(orig, F(1), glass), Sphere(orig, F(2), mirror),
       Sphere(orig, F(3), ivory), Sphere(orig, F(4), glass),
       Sphere(orig, F(5), red_rubber) >>

SeqsUpTo(S, n) == UNION { [1..m -> S] : m \in 0..n }

\* The floor of main() and a sphere above it, out of the way of the camera's
\* rays and in the way of the ray the floor reflects.
FloorAndBall ==
    << Rectangle2D_new(V(0, -4, -1), V(2, -4, -10), V(1, 0, 0), red_rubber),
       Sphere(V(0, -1, -9), Milli(500), ivory) >>

Scenes == SeqsUpTo(PrimPalette, MaxPrims) \cup {Shells, FloorAndBall}

\* Lights behind the camera (the sphere behind the camera may hide it) and
\* between the camera and the sphere behind it.
LightPalette ==
    { LightSource(V(0, 0, 5), Milli(1500)),
      LightSource(V(0, 0, 1), Milli(1300)) }

LightSets == SeqsUpTo(LightPalette, MaxLights)

\* The directions render hands to Ray::new: straight ahead and downwards.
PrimaryDirs == { V(0, 0, -1), V(0, -3, -4) }

-----------------------------------------------------------------------------
(* reflective_ray_cast as a machine with an explicit call stack *)

Frame(ray, depth) ==
    [ ray |-> ray, depth |-> depth, pc |-> "cast",
      collision |-> NoCollision(ray),
      reflected_ |-> Material_default,
      kids |-> <<>> ]

NoRet == [valid |-> FALSE, value |-> Material_default]
NoCall == [fn |-> "none"]
NoLast == [valid |-> FALSE]

Top == stack[Len(stack)]
Pop == SubSeq(stack, 1, Len(stack) - 1)

\* The record of a finished call: what it was given, what it saw and did,
\* and the Material it returned.
Finished(f, c, light, reflected_, refracted_, result) ==
    [ valid |-> TRUE, depth |-> f.depth, ray |-> f.ray, collision |-> c,
      diff |-> light[1], spec |-> light[2],
      reflected_ |-> reflected_, refracted_ |-> refracted_,
      kids |-> f.kids, result |-> result ]

\* The function returns `result` to its caller.
Return(f, c, light, reflected_, refracted_, result) ==
    /\ stack' = Pop
    /\ ret' = [valid |-> TRUE, value |-> result]
    /\ last' = Finished(f, c, light, reflected_, refracted_, result)

\* The function calls itself with `ray` at depth + 1.
Recurse(f, ray) ==
    /\ \E r \in {ray} :
           stack' = Append(Pop, [f EXCEPT !.kids = Append(@, [ray |-> r, depth |-> f.depth + 1])])
                    \o <<Frame(r, f.depth + 1)>>
    /\ ret' = NoRet
    /\ calls' = calls + 1

TraceInit ==
    /\ mode = "trace"
    /\ scene \in Scenes
    /\ lights \in LightSets
    /\ \E dir \in PrimaryDirs : stack = <<Frame(Ray_new(dir), 0)>>
    /\ ret = NoRet
    /\ last = NoLast
    /\ calls = 1
    /\ leaves = 0
    /\ pixel = <<>>
    /\ call = NoCall
    /\ mat = Material_default
    /\ nops = 0

Running == mode = "trace" /\ Len(stack) > 0

\* match cast_ray(ray, scene) { _ => Material::default() }
Miss ==
    /\ Running /\ Top.pc = "cast"
    /\ \E c \in {cast_ray(Top.ray, scene)} :
           /\ ~c.some
           /\ Return(Top, c, <<F(0), F(0)>>, Material_default, Material_default,
                     Material_default)
    /\ UNCHANGED <<mode, scene, lights, calls, leaves, pixel, call, mat, nops>>

\* Some(intersection) => local shading only.
Terminal ==
    /\ Running /\ Top.pc = "cast"
    /\ \E c \in {cast_ray(Top.ray, scene)} :
           /\ c.some /\ ~may_bounce(Top.depth)
           /\ \E light \in {get_light_adjustments(c, scene, lights)} :
                  Return(Top, c, light, Material_default, Material_default,
                         adjust_light(c.material, light[1], light[2]))
    /\ leaves' = leaves + 1
    /\ UNCHANGED <<mode, scene, lights, calls, pixel, call, mat, nops>>

\* Some(collision) if depth < MAX_RAY_BOUNCES => the reflected ray is cast.
CallReflected ==
    /\ Running /\ Top.pc = "cast"
    /\ \E c \in {cast_ray(Top.ray, scene)} :
           /\ c.some /\ may_bounce(Top.depth)
           /\ Recurse([Top EXCEPT !.pc = "reflected", !.collision = c],
                      reflected_ray(c, DEFAULT_JITTER))
    /\ UNCHANGED <<mode, scene, lights, last, leaves, pixel, call, mat, nops>>

\* The reflected cast has returned: the refracted ray is cast.
CallRefracted ==
    /\ Running /\ Top.pc = "reflected" /\ ret.valid
    /\ Recurse([Top EXCEPT !.pc = "refracted", !.reflected_ = ret.value],
               refracted_ray(Top.collision, DEFAULT_JITTER))
    /\ UNCHANGED <<mode, scene, lights, last, leaves, pixel, call, mat, nops>>

\* The refracted cast has returned: the lights are summed and the three
\* colors are mixed.
Compose ==
    /\ Running /\ Top.pc = "refracted" /\ ret.valid
    /\ \E light \in {get_light_adjustments(Top.collision, scene, lights)} :
           Return(Top, Top.collision, light, Top.reflected_, ret.value,
                  mix_refraction(
                      mix_reflection(
                          adjust_light(Top.collision.material, light[1], light[2]),
                          Top.reflected_),
                      ret.value))
    /\ UNCHANGED <<mode, scene, lights, calls, leaves, pixel, call, mat, nops>>

\* render: *pixel = reflected_material.pixel
Render ==
    /\ mode = "trace" /\ Len(stack) = 0 /\ ret.valid /\ pixel = <<>>
    /\ pixel' = ret.value.pixel
    /\ UNCHANGED <<mode, scene, lights, stack, ret, last, calls, leaves, call, mat, nops>>

TraceNext == Miss \/ Terminal \/ CallReflected \/ CallRefracted \/ Compose \/ Render

Done == mode = "trace" /\ pixel # <<>>

Spec == TraceInit /\ [][TraceNext]_vars

\* render has not written its pixel yet.  This is ENABLED <<TraceNext>>_vars:
\* in every reachable state with Busy one of the steps can be taken, see
\* CanStep below, and no step can be taken once the pixel is written.
Busy == mode = "trace" /\ pixel = <<>>

\* The program runs on while it can: weak fairness of TraceNext, which is
\* WF_vars(TraceNext) with Busy written for ENABLED <<TraceNext>>_vars.
\* A single thread executes the calls, nothing else is scheduled.
FairSpec == TraceInit /\ [][TraceNext]_vars /\ (<>[]Busy => []<><<TraceNext>>_vars)

-----------------------------------------------------------------------------
(* Unit runs: one function applied to arguments drawn from bounded sets *)

\* The largest coordinate of the points drawn.
MaxCoord == 2

Coords == -MaxCoord..MaxCoord
AxisDirs == { V(0, 0, -1), V(0, 0, 1), V(1, 0, 0), V(-1, 0, 0), V(0, 1, 0), V(0, -1, 0) }

\* Spheres around the z axis: the offset of the center from the axis and
\* the radius are such that every distance the intersection computes is a
\* whole number.
SphereOffsets == { <<0, 0>>, <<3, 0>>, <<0, 4>>, <<3, 4>>, <<6, 0>> }
SphereRadii == { F(5), F(1), F(-1) }
SphereZs == -(MaxCoord + 5)..(MaxCoord + 5)

\* Scene objects for cast_ray: four of them are hit at (0, 0, -3) by a ray
\* along -z, one plane is parallel to that ray.
UnitPrims ==
    { Sphere(V(0, 0, -5), F(2), ivory), Sphere(V(0, 0, -5), F(2), mirror),
      Sphere(V(0, 0, -6), F(3), glass), Plane(V(0, 0, 1), V(0, 0, -3)),
      Plane(V(0, 1, 0), V(0, -4, 0)), Sphere(V(0, 0, 4), F(1), red_rubber) }

Channels ==
    { NaN, NInf, F(-1), F(0), Milli(2), Milli(500), Milli(700), Milli(998),
      F(1), F(2), PInf }

UnitInit ==
    /\ mode = "unit"
    /\ call = NoCall
    /\ scene = <<>> /\ lights = <<>> /\ stack = <<>>
    /\ ret = NoRet /\ last = NoLast
    /\ calls = 0 /\ leaves = 0 /\ pixel = <<>>
    /\ mat = Material_default /\ nops = 0

\* The variables a unit run leaves alone.
unitFrame == <<mode, scene, lights, stack, ret, last, calls, leaves, pixel, mat, nops>>

CallPlane ==
    /\ mode = "unit" /\ call = NoCall
    /\ \E normal \in AxisDirs, dir \in AxisDirs, x \in Coords, z \in Coords, oz \in Coords :
        \E self \in {Plane(normal, V(x, 0, z))},
           ray \in {set_origin(Ray_new(dir), V(0, 0, oz))} :
            call' = [ fn |-> "Plane::ray_intersect", self |-> self, ray |-> ray,
                      res |-> Plane_ray_intersect(self, ray) ]
    /\ UNCHANGED unitFrame

CallSphere ==
    /\ mode = "unit" /\ call = NoCall
    /\ \E off \in SphereOffsets, radius \in SphereRadii, cz \in SphereZs,
          dir \in { V(0, 0, -1), V(0, 0, 1) } :
        \E self \in {Sphere(V(off[1], off[2], cz), radius, ivory)},
           ray \in {Ray_new(dir)} :
            call' = [ fn |-> "Sphere::ray_intersect", self |-> self, ray |-> ray,
                      res |-> Sphere_ray_intersect(self, ray) ]
    /\ UNCHANGED unitFrame

CallCastRay ==
    /\ mode = "unit" /\ call = NoCall
    /\ \E sc \in SeqsUpTo(UnitPrims, MaxPrims), dir \in AxisDirs :
        \E ray \in {Ray_new(dir)} :
            call' = [ fn |-> "cast_ray", ray |-> ray, scene |-> sc,
                      res |-> cast_ray(ray, sc) ]
    /\ UNCHANGED unitFrame

CallMaterialNew ==
    /\ mode = "unit" /\ call = NoCall
    /\ \E r \in Channels, g \in Channels, b \in Channels :
        call' = [ fn |-> "Material::new", color |-> <<r, g, b>>,
                  res |-> Material_new(<<r, g, b>>, <<F(1), F(0), F(0), F(0)>>,
                                       F(1), F(1)) ]
    /\ UNCHANGED unitFrame

UnitNext == CallPlane \/ CallSphere \/ CallCastRay \/ CallMaterialNew

UnitSpec == UnitInit /\ [][UnitNext]_vars

-----------------------------------------------------------------------------
(* Material runs: a Material built by Material::new and then adjusted and
   mixed, with sums, colors and coefficients of any value *)

\* The longest sequence of operations applied to one Material.
MaxOps == 2

wild == Material_new(<<F(2), F(-1), NaN>>, <<F(-3), PInf, NaN, F(7)>>, F(2), F(1))

Materials == { ivory, glass, red_rubber, mirror, Material_default, wild }

LightSums == { NaN, NInf, F(-1), F(0), Milli(500), F(3), PInf }

MaterialInit ==
    /\ mode = "material"
    /\ mat \in Materials
    /\ nops = 0
    /\ call = NoCall
    /\ scene = <<>> /\ lights = <<>> /\ stack = <<>>
    /\ ret = NoRet /\ last = NoLast
    /\ calls = 0 /\ leaves = 0 /\ pixel = <<>>

\* The variables a material run leaves alone.
materialFrame == <<mode, scene, lights, stack, ret, last, calls, leaves, pixel, call>>

AdjustLight ==
    /\ mode = "material" /\ nops < MaxOps
    /\ \E diffuse \in LightSums, specular \in LightSums :
           mat' = adjust_light(mat, diffuse, specular)
    /\ nops' = nops + 1
    /\ UNCHANGED materialFrame

MixReflection ==
    /\ mode = "material" /\ nops < MaxOps
    /\ \E other \in Materials : mat' = mix_reflection(mat, other)
    /\ nops' = nops + 1
    /\ UNCHANGED materialFrame

MixRefraction ==
    /\ mode = "material" /\ nops < MaxOps
    /\ \E other \in Materials : mat' = mix_refraction(mat, other)
    /\ nops' = nops + 1
    /\ UNCHANGED materialFrame

MaterialNext == AdjustLight \/ MixReflection \/ MixRefraction

MaterialSpec == MaterialInit /\ [][MaterialNext]_vars

\* The ray caster and the Material operations side by side.
ColorSpec == (TraceInit \/ MaterialInit) /\ [][TraceNext \/ MaterialNext]_vars

-----------------------------------------------------------------------------
(* Termination and resources *)

\* The calls in progress are no deeper than MAX_RAY_BOUNCES, the calls made
\* so far fit a binary tree of that height, and the local shadings at its
\* leaves number at most 2^MAX_RAY_BOUNCES.
CallsBounded ==
    /\ \A i \in 1..Len(stack) : stack[i].depth <= MAX_RAY_BOUNCES
    /\ Len(stack) <= MAX_RAY_BOUNCES + 1
    /\ calls <= 2 ^ (MAX_RAY_BOUNCES + 1) - 1
    /\ leaves <= 2 ^ MAX_RAY_BOUNCES

\* While render waits for its pixel the guard of one of the steps holds: the
\* innermost call is about to cast its ray (Miss, Terminal and CallReflected
\* between them cover every outcome of cast_ray), or the call it made has
\* returned (CallRefracted, Compose), or the outermost call has (Render).
CanStep ==
    Busy =>
        IF Len(stack) = 0 THEN ret.valid
        ELSE \/ Top.pc = "cast"
             \/ Top.pc \in {"reflected", "refracted"} /\ ret.valid

\* C1: reflective_ray_cast(ray, scene, lights, 0) returns after finitely
\* many recursive calls (it never gets stuck, and render gets to write its
\* pixel), no call is made with a depth above MAX_RAY_BOUNCES, and at most
\* 2^MAX_RAY_BOUNCES local shadings happen at the leaf calls.
C1_Terminates == [](mode = "trace" => CallsBounded /\ CanStep) /\ <>Done

\* C1 happens: a run has returned after every call up to MAX_RAY_BOUNCES
\* hit something, so the tree of calls is full.
C1_FullTree ==
    /\ Done
    /\ leaves = 2 ^ MAX_RAY_BOUNCES
    /\ calls = 2 ^ (MAX_RAY_BOUNCES + 1) - 1

-----------------------------------------------------------------------------
(* The background *)

\* C2: whenever cast_ray finds no intersection for the ray of a call, the
\* call returns the default material exactly, without calling itself, at
\* every depth and whatever the lights: color (0.2, 0.7, 0.8), pixel
\* (51, 178, 204).
C2_MissIsBackground ==
    (mode = "trace" /\ last.valid /\ ~cast_ray(last.ray, scene).some) =>
        /\ last.result = Material_default
        /\ last.result.color = <<Milli(200), Milli(700), Milli(800)>>
        /\ last.result.pixel = <<51, 178, 204>>
        /\ last.kids = <<>>

\* C2 happens: a ray cast by a call below the first one misses every
\* object of a scene that is lit.
C2_DeepMiss ==
    /\ mode = "trace" /\ last.valid /\ ~last.collision.some
    /\ last.depth > 0
    /\ Len(scene) > 0 /\ Len(lights) > 0

-----------------------------------------------------------------------------
(* cast_ray *)

\* The scene objects whose ray_intersect reports a hit.
Hits(ray, sc) == { i \in 1..Len(sc) : ray_intersect(sc[i], ray).some }

\* The distance from the ray's origin to the hit the i-th object reports.
HitDist(ray, sc, i) == l2(VSub(ray_intersect(sc[i], ray).p, ray.origin))

\* Those whose hit is at a distance below f32::MAX.
FiniteHits(ray, sc) == { i \in Hits(ray, sc) : FLt(HitDist(ray, sc, i), F32_MAX) }

\* The i-th object's hit is nearer than the hits among `among` that come
\* before it in the scene and as near as those that come after it.
NearestFirst(ray, sc, among, i) ==
    \A j \in among :
        IF j < i THEN FLt(HitDist(ray, sc, i), HitDist(ray, sc, j))
        ELSE FLe(HitDist(ray, sc, i), HitDist(ray, sc, j))

\* res is the hit point, the normal and the material of the object s at p.
OfPrimitive(res, s, p) ==
    /\ res.hit_point = p
    /\ res.normal = collision_normal(s, p)
    /\ res.material = collision_material(s, p)

\* res is None when `among` is empty and else the hit of the nearest of
\* `among`, the first in scene order of the nearest.
NearestOf(ray, sc, res, among) ==
    /\ res.some <=> among # {}
    /\ res.some =>
           \E i \in among :
               /\ NearestFirst(ray, sc, among, i)
               /\ OfPrimitive(res, sc[i], ray_intersect(sc[i], ray).p)

\* C3 as the specification states it: cast_ray returns None if and only if
\* no object of the scene reports a hit, and else the hit point, normal and
\* material of the object whose hit is nearest to the ray's origin, the
\* first in scene order when several are as near.
C3_NearestHit ==
    call.fn = "cast_ray" =>
        NearestOf(call.ray, call.scene, call.res, Hits(call.ray, call.scene))

\* C3 as the code has it: the same, among the objects whose hit is at a
\* distance below f32::MAX.  A hit whose distance is infinite or NaN, which
\* Plane::ray_intersect reports for a ray parallel to the plane, is passed
\* over.
C3_NearestFiniteHit ==
    call.fn = "cast_ray" =>
        NearestOf(call.ray, call.scene, call.res, FiniteHits(call.ray, call.scene))

\* C3 happens: two objects of different materials are hit at the same
\* distance, and the ray is parallel to a plane of another scene.
C3_Tie ==
    /\ call.fn = "cast_ray" /\ call.res.some
    /\ \E i, j \in FiniteHits(call.ray, call.scene) :
           /\ i < j
           /\ HitDist(call.ray, call.scene, i) = HitDist(call.ray, call.scene, j)
           /\ collision_material(call.scene[i], call.res.hit_point)
                  # collision_material(call.scene[j], call.res.hit_point)

-----------------------------------------------------------------------------
(* Colors and pixels *)

\* Every color channel of the Material m is a number of [0, 1].
InRange(m) ==
    \A i \in 1..3 : IsFin(m.color[i]) /\ m.color[i].v >= 0 /\ m.color[i].v <= Scale

\* C4: after any sequence of adjust_light, mix_reflection and mix_refraction
\* calls, whatever the mixing coefficients and the light sums, every color
\* channel of the Material lies in [0, 1]; so does every channel of every
\* Material reflective_ray_cast returns, at any depth.
C4_ChannelsInRange ==
    /\ (mode = "material" /\ nops > 0) => InRange(mat)
    /\ (mode = "trace" /\ ret.valid) => InRange(ret.value)
    /\ (mode = "trace" /\ last.valid) => InRange(last.result)

\* C4 happens: MaxOps operations were applied to the Material whose color
\* and coefficients are out of range, infinite or NaN.
C4_WildMixed ==
    /\ mode = "material" /\ nops = MaxOps
    /\ mat.spec_mixing_coef = PInf
    /\ \E i \in 1..3 : mat.color[i] = F(1)

\* The channel c clamped to [0, 1], in units of the grid; NaN clamps to 0
\* as c.max(0.).min(1.) does.
Clamp01(c) ==
    IF IsNaN(c) THEN 0
    ELSE IF Ord(c) < 0 THEN 0
    ELSE IF Ord(c) > Scale THEN Scale
    ELSE c.v

\* C5 as the specification states it: the pixel value of a channel c is
\* 255 * clamp(c, 0, 1) rounded to the nearest integer.
C5_PixelRounds ==
    call.fn = "Material::new" =>
        \A i \in 1..3 : call.res.pixel[i] = RoundDiv(255 * Clamp01(call.color[i]), Scale)

\* C5 as the code has it: the pixel value of a channel c is
\* 255 * clamp(c, 0, 1) rounded down, the fraction is dropped.
C5_PixelTruncates ==
    call.fn = "Material::new" =>
        \A i \in 1..3 : call.res.pixel[i] = (255 * Clamp01(call.color[i])) \div Scale

\* C5 happens: the channel 0.5, where 255 * 0.5 = 127.5, becomes 127.
C5_HalfDropped ==
    /\ call.fn = "Material::new"
    /\ call.color[1] = Milli(500)
    /\ call.res.pixel[1] = 127

-----------------------------------------------------------------------------
(* Lights and shadows *)

\* The direction from the hit point of c to the light, and the shadow ray:
\* it starts at the hit point moved off the surface along the normal.
LightDir(c, light) == normalized(VSub(light.position, c.hit_point))
ShadowRay(c, light) ==
    jittered_ray(c.hit_point, LightDir(c, light), c.normal, DEFAULT_JITTER)

\* The shadow ray hits some object of the scene nearer than the light is to
\* the hit point.
Occluded(c, light, sc) ==
    \E i \in Hits(ShadowRay(c, light), sc) :
        FLt(HitDist(ShadowRay(c, light), sc, i), l2(VSub(light.position, c.hit_point)))

\* What a light that is not occluded adds to the diffuse and specular sums.
DiffuseOf(c, light) ==
    FMul(light.intensity, f32_max(dot(c.normal, LightDir(c, light)), F(0)))
SpecularOf(c, light) ==
    FMul(light.intensity,
         powf(f32_max(dot(reflect(LightDir(c, light), c.normal), c.ray.direction), F(0)),
              c.material.specular_exponent))

\* The sums <<diffuse, specular>> over the lights from the i-th on.
RECURSIVE SumOfLights(_, _, _, _)
SumOfLights(c, sc, ls, i) ==
    IF i > Len(ls) THEN <<F(0), F(0)>>
    ELSE IF Occluded(c, ls[i], sc) THEN SumOfLights(c, sc, ls, i + 1)
    ELSE << FAdd(DiffuseOf(c, ls[i]), SumOfLights(c, sc, ls, i + 1)[1]),
            FAdd(SpecularOf(c, ls[i]), SumOfLights(c, sc, ls, i + 1)[2]) >>

\* C6: in get_light_adjustments a light whose shadow ray, from the hit
\* point moved along the normal toward the light, hits any object nearer
\* than the light adds nothing to the diffuse and specular sums; every
\* other light adds intensity * max(0, normal . light_dir) to the diffuse
\* sum and its specular term to the specular sum.
C6_ShadowedLightsAddNothing ==
    (mode = "trace" /\ last.valid /\ last.collision.some) =>
        /\ last.diff = SumOfLights(last.collision, scene, lights, 1)[1]
        /\ last.spec = SumOfLights(last.collision, scene, lights, 1)[2]

\* C6 happens: of two lights that both face the surface one is hidden by
\* an object and the other is not.
C6_OneLightHidden ==
    /\ mode = "trace" /\ last.valid /\ last.collision.some
    /\ \E i, j \in 1..Len(lights) :
           /\ Occluded(last.collision, lights[i], scene)
           /\ FGt(DiffuseOf(last.collision, lights[i]), F(0))
           /\ ~Occluded(last.collision, lights[j], scene)
           /\ FGt(DiffuseOf(last.collision, lights[j]), F(0))

-----------------------------------------------------------------------------
(* The result of reflective_ray_cast *)

\* x clamped to [0, 1] as x.max(0.).min(1.) clamps it: NaN becomes 0.
Clamped(x) ==
    IF IsNaN(x) THEN F(0)
    ELSE IF FLt(x, F(0)) THEN F(0)
    ELSE IF FGt(x, F(1)) THEN F(1)
    ELSE x

\* The channel i of the material m under the light sums: local shading.
LocalChannel(m, light, i) ==
    Clamped(FAdd(FMul(m.color[i], FMul(light[1], m.diff_mixing_coef)),
                 FMul(light[2], m.spec_mixing_coef)))

\* The channel i with the reflected and the refracted color mixed in, by
\* the reflectivity and the refractivity of m.
MixedChannel(m, light, reflected_, refracted_, i) ==
    Clamped(FAdd(Clamped(FAdd(LocalChannel(m, light, i),
                              FMul(m.reflection_mixing_coef, reflected_.color[i]))),
                 FMul(m.refraction_mixing_coef, refracted_.color[i])))

\* The call recorded in `last` returned the hit material under local
\* shading: c is what the call's ray hits, light the sums at c.
ReturnedLocal(c, light) ==
    last.result = Colored(c.material, [i \in 1..3 |-> LocalChannel(c.material, light, i)])

\* C7: a call with depth >= MAX_RAY_BOUNCES whose ray hits an object makes
\* no recursive call and returns the hit material adjusted by the diffuse
\* and specular sums over all lights, nothing reflected or refracted mixed
\* in.
C7_LeafShadesLocally ==
    (mode = "trace" /\ last.valid /\ last.depth >= MAX_RAY_BOUNCES) =>
        \A c \in {cast_ray(last.ray, scene)} :
            c.some =>
                /\ last.kids = <<>>
                /\ \A light \in {get_light_adjustments(c, scene, lights)} :
                       ReturnedLocal(c, light)

\* C7 happens: a call at depth MAX_RAY_BOUNCES has hit an object that both
\* sums light up.
C7_LeafLit ==
    /\ mode = "trace" /\ last.valid /\ last.collision.some
    /\ last.depth = MAX_RAY_BOUNCES
    /\ FGt(last.diff, F(0)) /\ FGt(last.spec, F(0))
    /\ FGt(last.collision.material.spec_mixing_coef, F(0))

\* The call recorded in `last` made two calls, with the reflected and the
\* refracted ray at the next depth, and returned the three colors mixed.
ReturnedMixed(c, light) ==
    /\ last.kids = << [ray |-> reflected_ray(c, DEFAULT_JITTER), depth |-> last.depth + 1],
                      [ray |-> refracted_ray(c, DEFAULT_JITTER), depth |-> last.depth + 1] >>
    /\ last.result =
           Colored(c.material,
                   [i \in 1..3 |-> MixedChannel(c.material, light, last.reflected_,
                                                last.refracted_, i)])

\* A call that waits for a call it made gets the result of that very call:
\* the call that returned last was made with the ray and depth the waiting
\* call asked for last, and what it returned is what the caller receives.
KidReturned ==
    (mode = "trace" /\ Len(stack) > 0 /\ ret.valid) =>
        /\ last.valid /\ ret.value = last.result
        /\ Len(Top.kids) = (IF Top.pc = "reflected" THEN 1 ELSE 2)
        /\ Top.kids[Len(Top.kids)] = [ray |-> last.ray, depth |-> last.depth]

\* C8: a call with depth < MAX_RAY_BOUNCES whose ray hits an object traces
\* exactly one reflected and one refracted ray, each at depth + 1, and
\* returns per channel
\*   clamp(clamp(clamp(color * diffuse * diffuse_albedo + specular * specular_albedo)
\*               + reflectivity * reflected.color) + refractivity * refracted.color)
\* with the reflectivity and refractivity of the hit material.
C8_BounceMixes ==
    /\ KidReturned
    /\ (mode = "trace" /\ last.valid /\ last.depth < MAX_RAY_BOUNCES) =>
           \A c \in {cast_ray(last.ray, scene)} :
               c.some =>
                   \A light \in {get_light_adjustments(c, scene, lights)} :
                       ReturnedMixed(c, light)

\* C8 happens: a call above MAX_RAY_BOUNCES has hit glass, and what the
\* refracted ray returned has another refractivity and changes the color.
C8_GlassBounce ==
    /\ mode = "trace" /\ last.valid /\ last.collision.some
    /\ last.depth < MAX_RAY_BOUNCES
    /\ last.collision.material.refraction_mixing_coef = Milli(800)
    /\ last.refracted_.refraction_mixing_coef = F(0)
    /\ last.result # mix_reflection(adjust_light(last.collision.material,
                                                 last.diff, last.spec),
                                    last.reflected_)
    /\ \E i \in 1..3 : FLt(last.result.color[i], F(1))

-----------------------------------------------------------------------------
(* Plane::ray_intersect *)

\* normal . direction and normal . (point - origin) of a plane and a ray.
\* Both are exact: the vectors drawn have whole coordinates.
CosOf(self, ray) == dot(self.normal, ray.direction)
GapOf(self, ray) == dot(self.normal, VSub(self.point, ray.origin))

\* The ray runs parallel to the plane.
Parallel(self, ray) == CosOf(self, ray) = F(0)

\* The ray meets the plane strictly ahead of its origin: at the distance
\* gap / cos > 0.
Ahead(self, ray) == FGt(FMul(CosOf(self, ray), GapOf(self, ray)), F(0))

\* The ray leads away from the plane: gap / cos < 0.
Behind(self, ray) == FLt(FMul(CosOf(self, ray), GapOf(self, ray)), F(0))

AllFinite(p) == IsFin(p.x) /\ IsFin(p.y) /\ IsFin(p.z)

\* The point p lies on the plane and on the ray, t >= 0 from its origin.
MeetsAt(self, ray, p) ==
    /\ dot(self.normal, VSub(p, self.point)) = F(0)
    /\ \E t \in 0..(2 * MaxCoord) : p = VAdd(ray.origin, mult(ray.direction, F(t)))

\* C9 as the specification states it: Plane::ray_intersect returns a hit
\* point only when the ray is not parallel to the plane and meets it
\* strictly ahead of its origin; it returns None when the ray is parallel
\* to the plane and when the plane lies behind the ray.
C9_PlaneHitIsAhead ==
    call.fn = "Plane::ray_intersect" =>
        /\ call.res.some => ~Parallel(call.self, call.ray) /\ Ahead(call.self, call.ray)
        /\ Parallel(call.self, call.ray) => ~call.res.some
        /\ Behind(call.self, call.ray) => ~call.res.some

\* C9 as the code has it: None is returned only when the plane lies behind
\* the ray.  A ray that is not parallel gets the point where it meets the
\* plane, which is its origin when the origin lies on the plane; a
\* parallel ray gets a point with infinite or NaN coordinates.
C9_PlaneHitUnlessBehind ==
    call.fn = "Plane::ray_intersect" =>
        /\ call.res.some <=> ~Behind(call.self, call.ray)
        /\ (call.res.some /\ ~Parallel(call.self, call.ray)) =>
               MeetsAt(call.self, call.ray, call.res.p)
        /\ Parallel(call.self, call.ray) => ~AllFinite(call.res.p)

\* C9 happens: a ray parallel to a plane it does not start on.
C9_ParallelRay ==
    /\ call.fn = "Plane::ray_intersect"
    /\ Parallel(call.self, call.ray)
    /\ GapOf(call.self, call.ray) # F(0)
    /\ call.res.some

-----------------------------------------------------------------------------
(* Sphere::ray_intersect *)

\* The whole number a float of whole value stands for.
Whole(a) == a.v \div Scale

\* The square of the distance between the center of the sphere and the
\* point at the distance t along the ray.
Dist2At(self, ray, t) ==
    (Whole(ray.origin.x) + t * Whole(ray.direction.x) - Whole(self.center.x)) ^ 2
    + (Whole(ray.origin.y) + t * Whole(ray.direction.y) - Whole(self.center.y)) ^ 2
    + (Whole(ray.origin.z) + t * Whole(ray.direction.z) - Whole(self.center.z)) ^ 2

\* The distances along the ray, before or behind its origin, within which
\* the sphere is met if it is met at all.
Reach == (-(2 * MaxCoord + 10))..(2 * MaxCoord + 10)

\* The root distances: where the ray meets the surface of the sphere.
Roots(self, ray) == { t \in Reach : Dist2At(self, ray, t) = Whole(self.radius) ^ 2 }

\* The closest approach of the ray's line to the center exceeds the radius.
PassesBy(self, ray) ==
    \/ Whole(self.radius) < 0
    \/ \A t \in Reach : Dist2At(self, ray, t) > Whole(self.radius) ^ 2

Least(S) == CHOOSE t \in S : \A u \in S : t <= u
Greatest(S) == CHOOSE t \in S : \A u \in S : t >= u

\* The result for the root distances t1 <= t2.
FirstAhead(ray, t1, t2) ==
    IF t1 > 0 THEN Point(VAdd(ray.origin, mult(ray.direction, F(t1))))
    ELSE IF t2 > 0 THEN Point(VAdd(ray.origin, mult(ray.direction, F(t2))))
    ELSE HitNone

\* C10: Sphere::ray_intersect returns None whenever the closest approach of
\* the ray to the center exceeds the radius; else, with the root distances
\* t1 <= t2 along the ray, the point at t1 when t1 > 0, otherwise the point
\* at t2 when t2 > 0 (the origin is inside the sphere), otherwise None.
C10_FirstRootAhead ==
    call.fn = "Sphere::ray_intersect" =>
        IF PassesBy(call.self, call.ray) THEN call.res = HitNone
        ELSE /\ Roots(call.self, call.ray) # {}
             /\ call.res = FirstAhead(call.ray, Least(Roots(call.self, call.ray)),
                                      Greatest(Roots(call.self, call.ray)))

\* C10 happens: the origin of the ray is inside the sphere, the first root
\* lies behind it and the second ahead, and the second is returned.
C10_FromInside ==
    /\ call.fn = "Sphere::ray_intersect"
    /\ ~PassesBy(call.self, call.ray)
    /\ \E t1, t2 \in Roots(call.self, call.ray) :
           /\ t1 < 0 /\ t2 > 0
           /\ call.res = Point(VAdd(call.ray.origin, mult(call.ray.direction, F(t2))))

-----------------------------------------------------------------------------
(* The origins of the secondary rays *)

\* The point pt moved by the jitter along the normal, to the side of the
\* surface the direction dir heads into; cosine is dir . normal.
Shifted(pt, normal, origin, cosine) ==
    /\ FGt(cosine, F(0)) => origin = VAdd(pt, mult(normal, DEFAULT_JITTER))
    /\ FLt(cosine, F(0)) => origin = VSub(pt, mult(normal, DEFAULT_JITTER))

\* The ray starts at the hit point of the collision c, shifted to the side
\* the ray heads into.
StartsOff(c, ray) ==
    Shifted(c.hit_point, c.normal, ray.origin, dot(ray.direction, c.normal))

\* The calls in progress that were made by another call: stack[i] was
\* called by stack[i - 1] with its reflected or its refracted ray.
Callees == 2..Len(stack)

\* C11: the origin of every secondary ray is the hit point shifted along the
\* surface normal by the jitter, hit_point + jitter * normal when the ray
\* heads to the normal's side (direction . normal > 0) and
\* hit_point - jitter * normal when it heads to the opposite side: of the
\* reflected and the refracted ray every call in progress was made with, and
\* of the shadow ray cast to every light from the hit point of the last
\* finished call.
C11_OriginOnRaysSide ==
    mode = "trace" =>
        /\ \A i \in Callees : StartsOff(stack[i - 1].collision, stack[i].ray)
        /\ (last.valid /\ last.collision.some) =>
               \A k \in 1..Len(lights) :
                   StartsOff(last.collision, ShadowRay(last.collision, lights[k]))

\* C11 happens: a refracted ray enters the surface it was made at (it heads
\* against the normal) and starts below the hit point, while the scene is lit
\* by a light on the normal's side of a finished call's hit point.
C11_RefractedInward ==
    /\ mode = "trace"
    /\ \E i \in Callees :
           /\ stack[i - 1].pc = "refracted"
           /\ FLt(dot(stack[i].ray.direction, stack[i - 1].collision.normal), F(0))
           /\ stack[i].ray.origin # stack[i - 1].collision.hit_point
           /\ stack[i].ray.origin =
                  VSub(stack[i - 1].collision.hit_point,
                       mult(stack[i - 1].collision.normal, DEFAULT_JITTER))
    /\ last.valid /\ last.collision.some
    /\ \E k \in 1..Len(lights) :
           FGt(dot(LightDir(last.collision, lights[k]), last.collision.normal), F(0))

-----------------------------------------------------------------------------
(* The pixel of a Material *)

\* The pixel field of the Material m is the pixel of its color.
Fresh(m) == m.pixel = _to_pixel(m.color)

\* C12: the pixel field of every Material produced by Material::new,
\* Material::default, adjust_light, mix_reflection or mix_refraction, in any
\* sequence, equals _to_pixel of the Material's current color: of the
\* Material under construction, of every Material reflective_ray_cast
\* received or returned, and so the pixel render writes is the pixel of the
\* color of the Material the trace returned.
C12_PixelFollowsColor ==
    /\ mode = "material" => Fresh(mat)
    /\ (mode = "trace" /\ ret.valid) => Fresh(ret.value)
    /\ (mode = "trace" /\ last.valid) =>
           Fresh(last.result) /\ Fresh(last.reflected_) /\ Fresh(last.refracted_)
    /\ (mode = "trace" /\ pixel # <<>>) => pixel = _to_pixel(ret.value.color)

\* C12 happens: MaxOps operations were applied to a Material and its color
\* and its pixel are no longer those of any Material it could start from.
C12_Repainted ==
    /\ mode = "material" /\ nops = MaxOps
    /\ \A m \in Materials : mat.color # m.color /\ mat.pixel # m.pixel
    /\ Fresh(mat)

-----------------------------------------------------------------------------
(* Materials that neither reflect nor refract *)

\* The Material m has reflectivity 0 and refractivity 0.
Matte(m) == m.reflection_mixing_coef = F(0) /\ m.refraction_mixing_coef = F(0)

\* Some channel of the color of m is above 0.
Tinted(m) == \E i \in 1..3 : FGt(m.color[i], F(0))

\* C13: when the hit material has reflectivity 0 and refractivity 0, a call
\* of reflective_ray_cast at a depth < MAX_RAY_BOUNCES returns what the
\* terminal state returns, hit_material.adjust_light(diffuse, specular),
\* whatever colors its reflected and refracted traces returned.
C13_MatteIgnoresBounces ==
    (mode = "trace" /\ last.valid /\ last.depth < MAX_RAY_BOUNCES) =>
        \A c \in {cast_ray(last.ray, scene)} :
            (c.some /\ Matte(c.material)) =>
                \A light \in {get_light_adjustments(c, scene, lights)} :
                    /\ ReturnedLocal(c, light)
                    /\ last.result = adjust_light(c.material, light[1], light[2])

\* C13 happens: a call below MAX_RAY_BOUNCES has hit a material of
\* reflectivity and refractivity 0, its two traces have returned colors that
\* are not black and differ from each other, and the color it returned has a
\* channel below 1 that a mix could have raised.
C13_MatteBounce ==
    /\ mode = "trace" /\ last.valid /\ last.collision.some
    /\ last.depth < MAX_RAY_BOUNCES
    /\ Matte(last.collision.material)
    /\ Len(last.kids) = 2
    /\ Tinted(last.reflected_) /\ Tinted(last.refracted_)
    /\ last.reflected_.color # last.refracted_.color
    /\ \E i \in 1..3 : FLt(last.result.color[i], F(1))

=============================================================================
